---- MODULE Spec2Model ----
(***************************************************************************)
(* The resilient call pipeline of the HTML-to-API proxy (src/server.js):   *)
(* per-domain circuit breakers, the response cache, the session store, the *)
(* retrying transport and the /api/:domain/* handlers that compose them.   *)
(*                                                                         *)
(* One action is one run of handler code between two suspension points of  *)
(* the Node.js event loop: code between two awaits on I/O runs atomically. *)
(***************************************************************************)
EXTENDS Integers, Sequences, FiniteSets, TLC

VARIABLES
    now,              \* Date.now(), in ms
    websiteConfigs,   \* domain -> config                  (server.js:70)
    circuitBreakers,  \* domain -> breaker record          (server.js:91)
    sessionStore,     \* domain -> {jar, baseUrl, lastUsed} (server.js:73)
    memoryCache,      \* cache key -> {value, expire}      (memory-cache)
    metrics,          \* counters of the handlers          (server.js:76)
    calls,            \* slot -> the makeAPICall activation suspended there
    webhooks,         \* webhook POSTs dispatched and not yet answered
    logged,           \* the breaker transitions written by console.log
    lastResp,         \* the HTTP response most recently sent to a caller
    sessionFile,      \* the content of sessions.json      (server.js:165)
    batch             \* the activation of the /batch handler (server.js:616)

vars == <<now, websiteConfigs, circuitBreakers, sessionStore, memoryCache,
          metrics, calls, webhooks, logged, lastResp, sessionFile, batch>>

----------------------------------------------------------------------------
(* Bounds of the model *)

MaxCalls == 4       \* handler invocations in one behaviour
MaxSkew == 2        \* the clock reads at most this many ms past 0 or past DEFAULT_TTL

\* Concurrent makeAPICall activations: the slots of the run
Slots == DOMAIN calls

----------------------------------------------------------------------------
(* Program constants *)

\* parseInt(process.env.CIRCUIT_BREAKER_FAILURE_THRESHOLD) || 5: the process
\* is modelled with the environment setting 2.
CIRCUIT_BREAKER_FAILURE_THRESHOLD == 2
\* parseInt(process.env.CIRCUIT_BREAKER_TIMEOUT) || 60000: environment sets 1 ms.
CIRCUIT_BREAKER_TIMEOUT == 1
\* parseInt(process.env.CIRCUIT_BREAKER_SUCCESS_THRESHOLD) || 3: environment sets 2.
CIRCUIT_BREAKER_SUCCESS_THRESHOLD == 2
\* setCachedResponse(key, data, ttl = 300000)
DEFAULT_TTL == 300000
\* axiosRetry(..., { retries: 3, ... })
RETRIES == 3

NULL == -1          \* JavaScript null in a numeric field

----------------------------------------------------------------------------
(* The configured world *)

Domains == {"a.com", "b.com"}
Paths == {"page"}
Methods == {"GET", "POST"}

\* selectors: field name -> CSS expression (a tag name in this model)
SelTitle == [title |-> "h1"]

\* websiteConfigs as POST /config leaves it (server.js:486-493); auth is a set
\* holding the auth object when one is configured, webhookUrl likewise.
ConfigA == [baseUrl |-> "https://a.com", selectors |-> SelTitle,
            auth |-> {}, webhookUrl |-> {}, useBrowser |-> FALSE]
ConfigB == [baseUrl |-> "https://b.com", selectors |-> SelTitle,
            auth |-> {[username |-> "u", password |-> "p", loginPath |-> "login"]},
            webhookUrl |-> {"https://hook"}, useBrowser |-> TRUE]
\* a.com with a webhook: fetched by the transport, its results cached
ConfigHook == [ConfigA EXCEPT !.webhookUrl = {"https://hook"}]
\* The config stores a run may start with: one domain is configured, the
\* other is not
InitialConfigs == {"a.com" :> ConfigA, "b.com" :> ConfigB}

----------------------------------------------------------------------------
(* Circuit breaker: server.js:94-146 *)

NewBreaker == [state |-> "closed", failures |-> 0, lastFailure |-> NULL, successes |-> 0]

\* getCircuitBreaker: the registry after the lookup (created on first reference)
getCircuitBreaker(cbs, d) ==
    IF d \in DOMAIN cbs THEN cbs ELSE cbs @@ (d :> NewBreaker)

\* A JavaScript null used in arithmetic is 0
Num(x) == IF x = NULL THEN 0 ELSE x

\* recordFailure opening only above the threshold
recordFailure_Above(cbs, d, t) ==
    LET m == getCircuitBreaker(cbs, d)
        f == m[d].failures + 1
    IN  [m EXCEPT ![d] = [@ EXCEPT !.failures = f,
                                   !.lastFailure = t,
                                   !.state = IF f > CIRCUIT_BREAKER_FAILURE_THRESHOLD
                                             THEN "open" ELSE @]]

\* recordFailure without the stamp of lastFailure
recordFailure_NoStamp(cbs, d, t) ==
    LET m == getCircuitBreaker(cbs, d)
        f == m[d].failures + 1
    IN  [m EXCEPT ![d] = [@ EXCEPT !.failures = f,
                                   !.state = IF f >= CIRCUIT_BREAKER_FAILURE_THRESHOLD
                                             THEN "open" ELSE @]]

\* recordFailure counting nothing once the breaker is open
recordFailure_SkipsWhenOpen(cbs, d, t) ==
    LET m == getCircuitBreaker(cbs, d)
        f == m[d].failures + 1
    IN  IF m[d].state = "open" THEN [m EXCEPT ![d].lastFailure = t]
        ELSE [m EXCEPT ![d] = [@ EXCEPT !.failures = f,
                                        !.lastFailure = t,
                                        !.state = IF f >= CIRCUIT_BREAKER_FAILURE_THRESHOLD
                                                  THEN "open" ELSE @]]

\* recordFailure(domain) at time t: the registry afterwards
recordFailure(cbs, d, t) ==
    LET m == getCircuitBreaker(cbs, d)
        f == m[d].failures + 1
    IN  [m EXCEPT ![d] = [@ EXCEPT !.failures = f,
                                   !.lastFailure = t,
                                   !.state = IF f >= CIRCUIT_BREAKER_FAILURE_THRESHOLD
                                             THEN "open" ELSE @]]

\* recordSuccess closing the breaker without clearing failures
recordSuccess_KeepsFailures(cbs, d) ==
    LET m == getCircuitBreaker(cbs, d)
        cb == m[d]
    IN  IF cb.state = "half-open"
        THEN IF cb.successes + 1 >= CIRCUIT_BREAKER_SUCCESS_THRESHOLD
             THEN [m EXCEPT ![d] = [@ EXCEPT !.state = "closed", !.successes = 0]]
             ELSE [m EXCEPT ![d] = [@ EXCEPT !.successes = @ + 1]]
        ELSE IF cb.state = "closed"
        THEN [m EXCEPT ![d] = [@ EXCEPT !.failures = 0]]
        ELSE m

\* recordSuccess leaving failures as they are while the breaker is closed
recordSuccess_ClosedKeeps(cbs, d) ==
    LET m == getCircuitBreaker(cbs, d)
        cb == m[d]
    IN  IF cb.state = "half-open"
        THEN IF cb.successes + 1 >= CIRCUIT_BREAKER_SUCCESS_THRESHOLD
             THEN [m EXCEPT ![d] = [@ EXCEPT !.state = "closed", !.failures = 0,
                                            !.successes = 0]]
             ELSE [m EXCEPT ![d] = [@ EXCEPT !.successes = @ + 1]]
        ELSE m

\* recordSuccess(domain): the registry afterwards
recordSuccess(cbs, d) ==
    LET m == getCircuitBreaker(cbs, d)
        cb == m[d]
    IN  IF cb.state = "half-open"
        THEN IF cb.successes + 1 >= CIRCUIT_BREAKER_SUCCESS_THRESHOLD
             THEN [m EXCEPT ![d] = [@ EXCEPT !.state = "closed", !.failures = 0,
                                            !.successes = 0]]
             ELSE [m EXCEPT ![d] = [@ EXCEPT !.successes = @ + 1]]
        ELSE IF cb.state = "closed"
        THEN [m EXCEPT ![d] = [@ EXCEPT !.failures = 0]]
        ELSE m

\* The timeout test admitting at equality
TimedOut_AtEquality(cb, t) == t - Num(cb.lastFailure) >= CIRCUIT_BREAKER_TIMEOUT

\* The open breaker's timeout test of canProceed (server.js:137)
TimedOut(cb, t) == t - Num(cb.lastFailure) > CIRCUIT_BREAKER_TIMEOUT

\* canProceed letting every call through
canProceed_Always(cbs, d, t) == TRUE

\* canProceed letting nothing through a half-open breaker but the call that
\* turned it
canProceed_OneTrial(cbs, d, t) ==
    LET cb == getCircuitBreaker(cbs, d)[d]
    IN  IF cb.state = "closed" THEN TRUE
        ELSE IF cb.state = "open" THEN TimedOut(cb, t)
        ELSE FALSE

\* canProceed(domain) at time t: the value returned
canProceed(cbs, d, t) ==
    LET cb == getCircuitBreaker(cbs, d)[d]
    IN  IF cb.state = "closed" THEN TRUE
        ELSE IF cb.state = "open" THEN TimedOut(cb, t)
        ELSE TRUE

\* canProceed clearing failures when it turns the breaker half-open
canProceedEffect_ResetsFailures(cbs, d, t) ==
    LET m == getCircuitBreaker(cbs, d)
    IN  IF m[d].state = "open" /\ TimedOut(m[d], t)
        THEN [m EXCEPT ![d] = [@ EXCEPT !.state = "half-open", !.successes = 0,
                                       !.failures = 0]]
        ELSE m

\* canProceed(domain) at time t: the registry afterwards
canProceedEffect(cbs, d, t) ==
    LET m == getCircuitBreaker(cbs, d)
    IN  IF m[d].state = "open" /\ TimedOut(m[d], t)
        THEN [m EXCEPT ![d] = [@ EXCEPT !.state = "half-open", !.successes = 0]]
        ELSE m

\* The lines console.log writes in recordFailure, recordSuccess and canProceed
\* (server.js:112, 124, 140) when the registry goes from cbs to next; the
\* line of recordFailure is kept a second time with the time it was written
LogFailure(next, d) ==
    IF next[d].failures >= CIRCUIT_BREAKER_FAILURE_THRESHOLD
    THEN {<<"opened", d>>, <<"opened", d, next[d].lastFailure>>} ELSE {}

LogSuccess(cbs, next, d) ==
    IF getCircuitBreaker(cbs, d)[d].state = "half-open" /\ next[d].state = "closed"
    THEN {<<"closed", d>>} ELSE {}

LogProceed(cbs, next, d) ==
    IF getCircuitBreaker(cbs, d)[d].state = "open" /\ next[d].state = "half-open"
    THEN {<<"half-open", d>>} ELSE {}

----------------------------------------------------------------------------
(* Response cache: server.js:302-312 over the memory-cache package *)

getCacheKey(d, p, m) == m \o ":" \o d \o ":" \o p

\* A lookup that serves an entry whatever its age
getCachedResponse_NoExpiry(cache, key, t) ==
    IF key \in DOMAIN cache THEN {cache[key].value} ELSE {}

\* memoryCache.get(key): the value as a set (empty: null). An entry is served
\* while expire >= Date.now().
getCachedResponse(cache, key, t) ==
    IF key \in DOMAIN cache /\ cache[key].expire >= t THEN {cache[key].value} ELSE {}

\* memoryCache.get(key) drops the entry it finds expired
getCachedEffect(cache, key, t) ==
    IF key \in DOMAIN cache /\ cache[key].expire < t
    THEN [k \in DOMAIN cache \ {key} |-> cache[k]]
    ELSE cache

\* The timer memoryCache.put arms deletes the entry once ttl has passed
TimerDue(cache, key, t) == key \in DOMAIN cache /\ t >= cache[key].expire

\* A put that keeps the entry it finds under the key
setCachedResponse_KeepsFirst(cache, key, data, ttl, t) ==
    [k \in DOMAIN cache \cup {key} |->
        IF k = key /\ k \notin DOMAIN cache
        THEN [value |-> data, expire |-> t + ttl] ELSE cache[k]]

\* memoryCache.put(key, data, ttl) at time t
setCachedResponse(cache, key, data, ttl, t) ==
    [k \in DOMAIN cache \cup {key} |->
        IF k = key THEN [value |-> data, expire |-> t + ttl] ELSE cache[k]]

----------------------------------------------------------------------------
(* Documents and extraction: server.js:558-608 *)

\* Text is a sequence of characters; a document is the sequence of its
\* elements in document order, each with a tag, its text and its attributes.
Undefined == "undefined"
NoAttrs == [action |-> Undefined, method |-> Undefined]
DocHi == << [tag |-> "h1", text |-> <<" ", "H", "i", " ">>, attrs |-> NoAttrs] >>
DocForm == << [tag |-> "h1", text |-> <<"A">>, attrs |-> NoAttrs],
              [tag |-> "form", text |-> <<>>,
               attrs |-> [action |-> "/go", method |-> Undefined]] >>
DocNone == << >>
DocTwo == << [tag |-> "h1", text |-> <<"A">>, attrs |-> NoAttrs],
             [tag |-> "h1", text |-> <<" ", "B", " ">>, attrs |-> NoAttrs] >>
Docs == {DocHi, DocForm, DocTwo}

\* The characters of the CSS expressions of this model
SelectorChars ==
    [h1 |-> <<"h", "1">>, p |-> <<"p">>, form |-> <<"f", "o", "r", "m">>]
    @@ ("h1[" :> <<"h", "1", "[">>)

\* The selector parser reaches the end of the expression inside an attribute
\* selector: open tells whether a "[" is waiting for its "]"
RECURSIVE Unterminated(_, _)
Unterminated(chars, open) ==
    IF chars = <<>> THEN open
    ELSE Unterminated(Tail(chars),
                      IF Head(chars) = "[" THEN TRUE
                      ELSE IF Head(chars) = "]" THEN FALSE ELSE open)

\* $(selector) throws on a CSS expression that does not parse
CssThrows(sel) == Unterminated(SelectorChars[sel], FALSE)

CssErrorMessage == "css syntax error"

IsSpace(c) == c = " "

RECURSIVE TrimLeft(_)
TrimLeft(t) == IF t # <<>> /\ IsSpace(Head(t)) THEN TrimLeft(Tail(t)) ELSE t

RECURSIVE TrimRight(_)
TrimRight(t) ==
    IF t # <<>> /\ IsSpace(t[Len(t)]) THEN TrimRight(SubSeq(t, 1, Len(t) - 1)) ELSE t

\* String.prototype.trim
Trim(t) == TrimRight(TrimLeft(t))

\* $(selector): the elements matching a tag selector, in document order
RECURSIVE Select(_, _)
Select(doc, sel) ==
    IF doc = <<>> THEN <<>>
    ELSE (IF Head(doc).tag = sel THEN <<Head(doc)>> ELSE <<>>) \o Select(Tail(doc), sel)

\* .text(): the texts of all the matched elements, concatenated
RECURSIVE Text(_)
Text(els) == IF els = <<>> THEN <<>> ELSE Head(els).text \o Text(Tail(els))

\* .attr(name): undefined when the attribute is absent
Attr(el, name) == el.attrs[name]

\* One entry of data.forms (server.js:588-604)
FormData(el) ==
    [action |-> Attr(el, "action"),
     method |-> IF Attr(el, "method") = Undefined THEN "GET" ELSE Attr(el, "method"),
     inputs |-> <<>>]

\* A selector model names its selectors: a name in ObjectSelectors stands
\* for that object, every other name is the CSS string itself
ObjectSelectors ==
    ("{array h1}" :> [type |-> "array", selector |-> "h1"])
    @@ ("{list h1}" :> [type |-> "list", selector |-> "h1"])

\* typeof selector === 'string' (server.js:565)
IsString(sel) == sel \notin DOMAIN ObjectSelectors

\* selector.type === 'array' (server.js:567)
IsArray(sel) == ~IsString(sel) /\ ObjectSelectors[sel].type = "array"

\* The keys of config.selectors for which extractData assigns data[key]: a
\* selector that is neither a string nor of type 'array' matches no branch
Assigned(config) ==
    {k \in DOMAIN config.selectors :
        IsString(config.selectors[k]) \/ IsArray(config.selectors[k])}

\* The CSS expression $(...) is called with for an assigned selector
Css(sel) == IF IsString(sel) THEN sel ELSE ObjectSelectors[sel].selector

\* extractData($, config) throws: it has no try/catch around $(selector)
extractThrows(config) == \E k \in Assigned(config) : CssThrows(Css(config.selectors[k]))

\* A value of `data`: a JavaScript string or a JavaScript array
StringValue(t) == [type |-> "string", value |-> t]
ArrayValue(x) == [type |-> "array", value |-> x]

\* Two values of `data` are the same value: same type, then same content
SameValue(v, w) == v.type = w.type /\ v.value = w.value

\* The items of an array selector without fields: { text } per matched
\* element (server.js:568-579)
ArrayItems(els) == [i \in DOMAIN els |-> [text |-> Trim(els[i].text)]]

\* data[key] for an assigned selector (server.js:566-579)
FieldValue(doc, sel) ==
    IF IsString(sel) THEN StringValue(Trim(Text(Select(doc, sel))))
    ELSE ArrayValue(ArrayItems(Select(doc, Css(sel))))

\* data.forms (server.js:584-605)
Forms(doc) == [i \in DOMAIN Select(doc, "form") |-> FormData(Select(doc, "form")[i])]

\* An extraction that keeps the forms of the run before it
extractData_KeepsForms(doc, config) ==
    [k \in Assigned(config) \cup {"forms"} |->
        IF k = "forms"
        THEN ArrayValue((IF lastResp.body = {} THEN <<>>
                         ELSE (CHOOSE b \in lastResp.body : TRUE).data.forms.value)
                        \o Forms(doc))
        ELSE FieldValue(doc, config.selectors[k])]

\* extractData($, config): `data` by key. The selectors are assigned first,
\* in key order, and data.forms last, over whatever a selector named
\* "forms" had put there
extractData(doc, config) ==
    [k \in Assigned(config) \cup {"forms"} |->
        IF k = "forms" THEN ArrayValue(Forms(doc))
        ELSE FieldValue(doc, config.selectors[k])]

----------------------------------------------------------------------------
(* Retrying transport: server.js:336-342 over the axios-retry package *)

\* A Set-Cookie header: the cookie's name, its value and its Path, a sequence
\* of path segments (<<>> is "/")
SidHeader == [key |-> "sid", value |-> "1", path |-> <<>>]
AdminHeader == [key |-> "tok", value |-> "7", path |-> <<"admin">>]

\* What upstream answers to one request: an HTTP status (0: no response was
\* received), the error code axios reports, the body and the Set-Cookie
\* headers of the response.
Answer(status, code, html, cookie) ==
    [status |-> status, code |-> code, html |-> html, cookie |-> cookie]
Answers ==
    {Answer(200, "", DocHi, {}),
     Answer(200, "", DocForm, {SidHeader}),
     Answer(404, "ERR_BAD_REQUEST", <<>>, {}),
     Answer(500, "ERR_BAD_RESPONSE", <<>>, {}),
     Answer(0, "ETIMEDOUT", <<>>, {}),
     Answer(0, "ECONNRESET", <<>>, {}),
     Answer(0, "ECONNABORTED", <<>>, {})}

\* axios rejects every answer whose status is not 2xx (validateStatus)
IsError(a) == ~(a.status >= 200 /\ a.status < 300)

isNetworkError(e) == e.status = 0 /\ e.code # "" /\ e.code # "ECONNABORTED"

\* isRetryableError taking every error status for retryable
isRetryableError_AnyStatus(e) ==
    e.code # "ECONNABORTED" /\ (e.status = 0 \/ (e.status >= 400 /\ e.status <= 599))

isRetryableError(e) ==
    e.code # "ECONNABORTED" /\ (e.status = 0 \/ (e.status >= 500 /\ e.status <= 599))

IDEMPOTENT_HTTP_METHODS == {"GET", "HEAD", "OPTIONS", "PUT", "DELETE"}

isIdempotentRequestError(e, m) == isRetryableError(e) /\ m \in IDEMPOTENT_HTTP_METHODS

isNetworkOrIdempotentRequestError(e, m) ==
    isNetworkError(e) \/ isIdempotentRequestError(e, m)

\* retryCondition of server.js:339-341, for an error of a request of method m
retryCondition(e, m) ==
    isNetworkOrIdempotentRequestError(e, m) \/ e.code = "ECONNRESET"

\* A retry budget one too large
ShouldRetry_OneMore(e, m, attempt) == attempt - 1 <= RETRIES /\ retryCondition(e, m)

\* axios-retry: whether the request that failed on its attempt-th try is sent again
ShouldRetry(e, m, attempt) == attempt - 1 < RETRIES /\ retryCondition(e, m)

----------------------------------------------------------------------------
(* Session store: server.js:225-261 *)

\* getCookieJar: the store after the synchronous part of the call
getCookieJar(store, d, baseUrl, t) ==
    IF d \in DOMAIN store
    THEN [store EXCEPT ![d].lastUsed = t]
    ELSE store @@ (d :> [jar |-> {}, baseUrl |-> baseUrl, lastUsed |-> t])

\* getCookieJar awaits performLogin when it created the session and
\* config.auth.loginPath is set
NeedsLogin(store, d, config) ==
    d \notin DOMAIN store /\ \E a \in config.auth : a.loginPath # ""

\* The cookie a jar holds for a Set-Cookie header without Domain attribute
\* received from host d
Cookie(h, d) == [key |-> h.key, value |-> h.value, domain |-> d, path |-> h.path]

\* CookieJar.setCookie: a cookie replaces the one of the same domain, path
\* and name
PutCookies(jar, cs) ==
    {c \in jar : ~\E n \in cs : n.key = c.key /\ n.domain = c.domain /\ n.path = c.path}
    \cup cs

\* The jar after an answer: axios-cookiejar-support and getPageWithBrowser
\* store the cookies of every response received
SetCookies(store, d, a) ==
    IF a.cookie # {} /\ a.status # 0 /\ d \in DOMAIN store
    THEN [store EXCEPT ![d].jar = PutCookies(@, {Cookie(h, d) : h \in a.cookie})]
    ELSE store

----------------------------------------------------------------------------
(* Session persistence: server.js:176-195, 207-222 over tough-cookie *)

\* sessions.json is the sequence of its entries in key order, each with a
\* domain, its baseUrl, lastUsed and the serialized cookies; a serialized
\* cookie is the sequence of its "name=value" pairs, the cookie pair first.
NoFile == <<>>

\* The host and the path of a base URL of this model
UrlHost(baseUrl) == IF baseUrl = "https://a.com" THEN "a.com" ELSE "b.com"
UrlPath(baseUrl) == <<>>

\* RFC 6265 path-match of a request path against a cookie path
pathMatch(reqPath, cookiePath) ==
    /\ Len(cookiePath) <= Len(reqPath)
    /\ SubSeq(reqPath, 1, Len(cookiePath)) = cookiePath

\* jar.getCookiesSync(url): the cookies a request to url would carry
getCookiesSync(jar, url) ==
    {c \in jar : c.domain = UrlHost(url) /\ pathMatch(UrlPath(url), c.path)}

\* cookie.toString() of a host-only cookie: no Domain attribute is written
CookieToString(c) == << <<c.key, c.value>>, <<"Path", c.path>> >>

\* Cookie.parse: the cookie as a set, empty when the string does not parse
\* (no cookie pair, or a pair without name in strict mode)
CookieParse(str, url) ==
    IF str = <<>> \/ str[1][1] = "" THEN {}
    ELSE {[key |-> str[1][1], value |-> str[1][2], domain |-> UrlHost(url),
           path |-> IF \E i \in 2..Len(str) : str[i][1] = "Path"
                    THEN str[CHOOSE i \in 2..Len(str) : str[i][1] = "Path"][2]
                    ELSE UrlPath(url)]}

\* The elements of a finite set in some order
RECURSIVE SetToSeq(_)
SetToSeq(S) == IF S = {} THEN <<>>
               ELSE LET x == CHOOSE x \in S : TRUE IN <<x>> \o SetToSeq(S \ {x})

\* saveSessions: what is written to sessions.json
saveSessions(store) ==
    LET ds == SetToSeq(DOMAIN store)
    IN  [i \in DOMAIN ds |->
            [domain |-> ds[i], baseUrl |-> store[ds[i]].baseUrl,
             lastUsed |-> store[ds[i]].lastUsed,
             cookies |-> SetToSeq({CookieToString(c) :
                            c \in getCookiesSync(store[ds[i]].jar, store[ds[i]].baseUrl)})]]

\* The forEach of server.js:183-185: jar.setCookieSync throws on a string
\* that does not parse; thrown tells whether it did
RECURSIVE ReplayCookies(_, _, _)
ReplayCookies(jar, cookies, url) ==
    IF cookies = <<>> THEN [thrown |-> FALSE, jar |-> jar]
    ELSE IF CookieParse(Head(cookies), url) = {} THEN [thrown |-> TRUE, jar |-> jar]
    ELSE ReplayCookies(PutCookies(jar, CookieParse(Head(cookies), url)), Tail(cookies), url)

\* server.js:176-195: the sessions of the file are rebuilt in key order; the
\* whole loop runs inside one try, so the first cookie that throws ends it and
\* the session being rebuilt and those after it are not stored
RECURSIVE Restore(_, _)
Restore(entries, store) ==
    IF entries = <<>> THEN store
    ELSE LET e == Head(entries)
             r == ReplayCookies({}, e.cookies, e.baseUrl)
         IN  IF r.thrown THEN store
             ELSE Restore(Tail(entries),
                     [d \in DOMAIN store \cup {e.domain} |->
                         IF d = e.domain
                         THEN [jar |-> r.jar, baseUrl |-> e.baseUrl, lastUsed |-> e.lastUsed]
                         ELSE store[d]])

----------------------------------------------------------------------------
(* makeAPICall and the /api handlers: server.js:315-470 *)

Idle == [pc |-> "idle", domain |-> "", path |-> "", method |-> "", attempts |-> 0]

InFlight == {s \in Slots : calls[s].pc # "idle"}

\* Handler invocations so far
Handled == metrics.totalRequests + metrics.totalErrors + Cardinality(InFlight)

\* Requests received so far by the three endpoints
Received == Handled + batch.count

\* The slot a new activation takes
FreeSlot == CHOOSE s \in Slots \ InFlight : \A r \in Slots \ InFlight : s <= r

Url(config, p) == config.baseUrl \o "/" \o p

\* The result object of server.js:393-399; it has no `cached` key
Result(d, url, data, t, status) ==
    [domain |-> d, url |-> url, data |-> data, timestamp |-> t, status |-> status,
     cached |-> "absent"]

\* A hit that stamps the copy anew
CacheHit_Restamped(r) == [r EXCEPT !.cached = "true", !.timestamp = now]

\* { ...cached, cached: true } (server.js:327)
CacheHit(r) == [r EXCEPT !.cached = "true"]

\* A response of a handler to the request for domain d: the status code, the
\* `error` and `details` of an error body, or the result sent by res.json
Response(d, code, error, details, body) ==
    [domain |-> d, code |-> code, error |-> error, details |-> details, body |-> body]

CircuitOpenMessage == "Circuit breaker is open for this domain"

ErrorText(m) == IF m = "GET" THEN "Failed to fetch page" ELSE "Failed to submit form"

\* The try branch of a handler after makeAPICall returned `result`
\* (server.js:428-434, 457-463), on the registry cbs
Resolve(cbs, d, result) ==
    /\ metrics' = [metrics EXCEPT !.totalRequests = @ + 1]
    /\ circuitBreakers' = recordSuccess(cbs, d)
    /\ logged' = logged \cup LogProceed(circuitBreakers, cbs, d)
                        \cup LogSuccess(cbs, recordSuccess(cbs, d), d)
    /\ lastResp' = Response(d, 200, "", "", {result})

\* The catch branch of a handler (server.js:435-440, 464-469), on the registry cbs
Reject(cbs, d, m, details) ==
    /\ metrics' = [metrics EXCEPT !.totalErrors = @ + 1]
    /\ circuitBreakers' = recordFailure(cbs, d, now)
    /\ logged' = logged \cup LogProceed(circuitBreakers, cbs, d)
                        \cup LogFailure(recordFailure(cbs, d, now), d)
    /\ lastResp' = Response(d, 500, ErrorText(m), details, {})

\* A dispatch that sends the login POST and does not wait for it
Dispatch_Detached(s, d, p, m, config) ==
    /\ sessionStore' = getCookieJar(sessionStore, d, config.baseUrl, now)
    /\ calls' = [calls EXCEPT ![s] =
            [pc |-> IF m = "GET" /\ config.useBrowser THEN "browser" ELSE "send",
             domain |-> d, path |-> p, method |-> m, attempts |-> 1]]

\* server.js:331-388 up to the first suspension: the session is acquired and
\* the login, the browser navigation or the first transport attempt is begun
Dispatch(s, d, p, m, config) ==
    /\ sessionStore' = getCookieJar(sessionStore, d, config.baseUrl, now)
    /\ calls' = [calls EXCEPT ![s] =
            [pc |-> IF NeedsLogin(sessionStore, d, config) THEN "login"
                    ELSE IF m = "GET" /\ config.useBrowser THEN "browser" ELSE "send",
             domain |-> d, path |-> p, method |-> m,
             attempts |-> IF NeedsLogin(sessionStore, d, config) THEN 0 ELSE 1]]

\* The handlers' answer to a domain without configuration, which records a
\* failure first
NotConfigured_RecordsFailure(d) ==
    /\ metrics' = [metrics EXCEPT !.totalErrors = @ + 1]
    /\ lastResp' = Response(d, 404, "Domain not configured", "", {})
    /\ circuitBreakers' = recordFailure(circuitBreakers, d, now)
    /\ UNCHANGED <<sessionStore, memoryCache, calls, logged>>

\* The handlers' answer to a domain without configuration (server.js:420-423,
\* 449-452)
NotConfigured(d) ==
    /\ metrics' = [metrics EXCEPT !.totalErrors = @ + 1]
    /\ lastResp' = Response(d, 404, "Domain not configured", "", {})
    /\ UNCHANGED <<circuitBreakers, sessionStore, memoryCache, calls, logged>>

\* A handler from its entry to its response or its first suspension
Api(d, p, m) ==
    /\ Received < MaxCalls
    /\ InFlight # Slots
    /\ IF d \notin DOMAIN websiteConfigs
       THEN NotConfigured(d)
       ELSE LET config == websiteConfigs[d]
                cbs == canProceedEffect(circuitBreakers, d, now)
                key == getCacheKey(d, p, m)
                cached == IF m = "GET" THEN getCachedResponse(memoryCache, key, now)
                          ELSE {}
            IN  IF ~canProceed(circuitBreakers, d, now)
                THEN /\ Reject(cbs, d, m, CircuitOpenMessage)
                     /\ UNCHANGED <<sessionStore, memoryCache, calls>>
                ELSE IF cached # {}
                THEN /\ \E r \in cached : Resolve(cbs, d, CacheHit(r))
                     /\ UNCHANGED <<sessionStore, memoryCache, calls>>
                ELSE /\ memoryCache' = IF m = "GET"
                                       THEN getCachedEffect(memoryCache, key, now)
                                       ELSE memoryCache
                     /\ circuitBreakers' = cbs
                     /\ logged' = logged \cup LogProceed(circuitBreakers, cbs, d)
                     /\ Dispatch(FreeSlot, d, p, m, config)
                     /\ UNCHANGED <<metrics, lastResp>>
    /\ UNCHANGED <<now, websiteConfigs, sessionFile, batch, webhooks>>

\* app.get('/api/:domain/*')
ApiGet(d, p) == Api(d, p, "GET")

\* app.post('/api/:domain/*')
ApiPost(d, p) == Api(d, p, "POST")

\* The line performLogin writes to the console (server.js:257, 259)
LogLogin(d, a) == {<<IF IsError(a) THEN "login failed" ELSE "login successful", d>>}

\* A login whose failure rejects the call that triggered it
LoginDone_FailsCall(s, a) ==
    LET c == calls[s]
        config == websiteConfigs[c.domain]
    IN  /\ c.pc = "login"
        /\ sessionStore' = SetCookies(sessionStore, c.domain, a)
        /\ IF IsError(a)
           THEN /\ Reject(circuitBreakers, c.domain, c.method, a.code)
                /\ calls' = [calls EXCEPT ![s] = Idle]
           ELSE /\ calls' = [calls EXCEPT ![s].pc = IF c.method = "GET" /\ config.useBrowser
                                                    THEN "browser" ELSE "send",
                                          ![s].attempts = 1]
                /\ logged' = logged \cup LogLogin(c.domain, a)
                /\ UNCHANGED <<circuitBreakers, metrics, lastResp>>
        /\ UNCHANGED <<now, websiteConfigs, sessionFile, batch, memoryCache, webhooks>>

\* The TypeError of `return sessionStore[domain].jar` (server.js:240) when
\* the session is gone from the store
JarTypeError == "Cannot read properties of undefined (reading 'jar')"

\* performLogin's POST is answered (server.js:244-261): its failure is only
\* logged; getCookieJar resumes at line 240 and reads the session from the
\* store again. If it is there the call goes on to its own request; if it
\* was deleted meanwhile the read throws and the handler's catch rejects
\* the call
LoginDone(s, a) ==
    LET c == calls[s]
        config == websiteConfigs[c.domain]
    IN  /\ c.pc = "login"
        /\ sessionStore' = SetCookies(sessionStore, c.domain, a)
        /\ IF c.domain \in DOMAIN sessionStore
           THEN /\ calls' = [calls EXCEPT ![s].pc = IF c.method = "GET" /\ config.useBrowser
                                                    THEN "browser" ELSE "send",
                                          ![s].attempts = 1]
                /\ logged' = logged \cup LogLogin(c.domain, a)
                /\ UNCHANGED <<circuitBreakers, metrics, lastResp>>
           ELSE /\ calls' = [calls EXCEPT ![s] = Idle]
                /\ metrics' = [metrics EXCEPT !.totalErrors = @ + 1]
                /\ circuitBreakers' = recordFailure(circuitBreakers, c.domain, now)
                /\ logged' = logged \cup LogLogin(c.domain, a)
                        \cup LogFailure(recordFailure(circuitBreakers, c.domain, now),
                                        c.domain)
                /\ lastResp' = Response(c.domain, 500, ErrorText(c.method),
                                        JarTypeError, {})
        /\ UNCHANGED <<now, websiteConfigs, sessionFile, batch, memoryCache, webhooks>>

\* server.js:390-398 as written: the document is parsed and extracted, then
\* `response.status` is read outside the block that declares `response`
\* (server.js:386) and the ReferenceError rejects the call
FinishThrows(s, html) ==
    LET c == calls[s]
        data == extractData(html, websiteConfigs[c.domain])
    IN  /\ data.forms = data.forms
        /\ Reject(circuitBreakers, c.domain, c.method, "response is not defined")
        /\ calls' = [calls EXCEPT ![s] = Idle]
        /\ UNCHANGED <<memoryCache, webhooks>>

\* server.js:390-391 when extractData throws: the call is rejected with the
\* parser's error
ExtractionThrows(s) ==
    LET c == calls[s]
    IN  /\ Reject(circuitBreakers, c.domain, c.method, CssErrorMessage)
        /\ calls' = [calls EXCEPT ![s] = Idle]
        /\ UNCHANGED <<memoryCache, webhooks>>

\* The completion caching the result whatever the method
FinishReturns_CachesAll(s, html, status) ==
    LET c == calls[s]
        config == websiteConfigs[c.domain]
        result == Result(c.domain, Url(config, c.path), extractData(html, config),
                         now, status)
    IN  /\ memoryCache' = setCachedResponse(memoryCache,
                                   getCacheKey(c.domain, c.path, c.method), result,
                                   DEFAULT_TTL, now)
        /\ webhooks' = IF config.webhookUrl # {} THEN webhooks + 1 ELSE webhooks
        /\ Resolve(circuitBreakers, c.domain, result)
        /\ calls' = [calls EXCEPT ![s] = Idle]

\* server.js:390-412 with `response` of line 386 in scope at line 398: the
\* result is assembled, cached for GET, sent to the webhook and returned
FinishReturns(s, html, status) ==
    LET c == calls[s]
        config == websiteConfigs[c.domain]
        result == Result(c.domain, Url(config, c.path), extractData(html, config),
                         now, status)
    IN  /\ memoryCache' = IF c.method = "GET"
                          THEN setCachedResponse(memoryCache,
                                   getCacheKey(c.domain, c.path, c.method), result,
                                   DEFAULT_TTL, now)
                          ELSE memoryCache
        /\ webhooks' = IF config.webhookUrl # {} THEN webhooks + 1 ELSE webhooks
        /\ Resolve(circuitBreakers, c.domain, result)
        /\ calls' = [calls EXCEPT ![s] = Idle]

\* The transport attempt in flight is answered (server.js:386 under axios-retry)
Answered(s, a, scoped) ==
    LET c == calls[s]
    IN  /\ c.pc = "send"
        /\ sessionStore' = SetCookies(sessionStore, c.domain, a)
        /\ IF IsError(a)
           THEN IF ShouldRetry(a, c.method, c.attempts)
                THEN /\ calls' = [calls EXCEPT ![s].attempts = @ + 1]
                     /\ UNCHANGED <<circuitBreakers, memoryCache, metrics, webhooks,
                                    logged, lastResp>>
                ELSE /\ Reject(circuitBreakers, c.domain, c.method, a.code)
                     /\ calls' = [calls EXCEPT ![s] = Idle]
                     /\ UNCHANGED <<memoryCache, webhooks>>
           ELSE IF extractThrows(websiteConfigs[c.domain]) THEN ExtractionThrows(s)
                ELSE IF scoped THEN FinishReturns(s, a.html, a.status)
                ELSE IF extractThrows(websiteConfigs[c.domain]) THEN ExtractionThrows(s)
                ELSE FinishThrows(s, a.html)
        /\ UNCHANGED <<now, websiteConfigs, sessionFile, batch>>

\* The program as written
Respond(s, a) == Answered(s, a, FALSE)

\* The program with `response` in scope at line 398
RespondScoped(s, a) == Answered(s, a, TRUE)

\* A navigation that is begun again when no response arrives
BrowserDone_Retries(s, a) ==
    LET c == calls[s]
    IN  /\ c.pc = "browser"
        /\ sessionStore' = SetCookies(sessionStore, c.domain, a)
        /\ IF a.status = 0
           THEN IF ShouldRetry(a, c.method, c.attempts)
                THEN /\ calls' = [calls EXCEPT ![s].attempts = @ + 1]
                     /\ UNCHANGED <<circuitBreakers, memoryCache, metrics, webhooks,
                                    logged, lastResp>>
                ELSE /\ Reject(circuitBreakers, c.domain, c.method, a.code)
                     /\ calls' = [calls EXCEPT ![s] = Idle]
                     /\ UNCHANGED <<memoryCache, webhooks>>
           ELSE IF extractThrows(websiteConfigs[c.domain]) THEN ExtractionThrows(s)
                ELSE FinishThrows(s, a.html)
        /\ UNCHANGED <<now, websiteConfigs, sessionFile, batch>>

\* getPageWithBrowser ends (server.js:264-299): page.goto throws when no
\* response arrives, otherwise the page content is returned whatever the
\* status; no `response` exists on this path, so line 398 throws either way
BrowserDone(s, a) ==
    LET c == calls[s]
    IN  /\ c.pc = "browser"
        /\ sessionStore' = SetCookies(sessionStore, c.domain, a)
        /\ IF a.status = 0
           THEN /\ Reject(circuitBreakers, c.domain, c.method, a.code)
                /\ calls' = [calls EXCEPT ![s] = Idle]
                /\ UNCHANGED <<memoryCache, webhooks>>
           ELSE IF extractThrows(websiteConfigs[c.domain]) THEN ExtractionThrows(s)
                ELSE FinishThrows(s, a.html)
        /\ UNCHANGED <<now, websiteConfigs, sessionFile, batch>>

\* The line the catch of server.js:408 writes to the console
LogWebhook(a) == IF IsError(a) THEN {<<"webhook failed", "">>} ELSE {}

\* A webhook POST that is sent again when it fails
WebhookDone_Retries(a) ==
    /\ webhooks > 0
    /\ webhooks' = IF IsError(a) THEN webhooks ELSE webhooks - 1
    /\ logged' = logged \cup LogWebhook(a)
    /\ UNCHANGED <<now, websiteConfigs, sessionFile, batch, circuitBreakers, sessionStore, memoryCache,
                   metrics, calls, lastResp>>

\* The webhook POST of server.js:408 is answered; it was sent with plain
\* axios, which does not retry, and a failure is only logged
WebhookDone(a) ==
    /\ webhooks > 0
    /\ webhooks' = webhooks - 1
    /\ logged' = logged \cup LogWebhook(a)
    /\ UNCHANGED <<now, websiteConfigs, sessionFile, batch, circuitBreakers, sessionStore, memoryCache,
                   metrics, calls, lastResp>>

----------------------------------------------------------------------------
(* The batch endpoint (server.js:616-646) *)

\* An element of `results`: { success: true, result } or { success: false, error }
BatchSuccess(result) == [success |-> TRUE, error |-> "", result |-> {result}]
BatchFailure(message) == [success |-> FALSE, error |-> message, result |-> {}]

\* No batch is being served; `count` is the number of batches received
NoBatch == [count |-> 0, todo |-> <<>>, results |-> <<>>, call |-> Idle]

\* The loop of server.js:629-643 from the request at the head of todo, for as
\* long as makeAPICall settles without suspending: a domain without
\* configuration, a refusal by the breaker and a cache hit are pushed onto
\* results, and neither recordSuccess nor recordFailure is called. The loop
\* stops at the first request that has to go upstream, which stays at the
\* head of todo.
RECURSIVE RunBatch(_, _, _, _, _, _)
RunBatch(todo, results, cbs, cache, lines, t) ==
    IF todo = <<>>
    THEN [todo |-> todo, results |-> results, cbs |-> cbs, cache |-> cache,
          lines |-> lines]
    ELSE LET r == Head(todo)
             d == r.domain
             key == getCacheKey(d, r.path, r.method)
             next == canProceedEffect(cbs, d, t)
             cached == IF r.method = "GET" THEN getCachedResponse(cache, key, t)
                       ELSE {}
         IN  IF d \notin DOMAIN websiteConfigs
             THEN RunBatch(Tail(todo),
                      Append(results, BatchFailure("Domain " \o d \o " not configured")),
                      cbs, cache, lines, t)
             ELSE IF ~canProceed(cbs, d, t)
             THEN RunBatch(Tail(todo),
                      Append(results, BatchFailure(CircuitOpenMessage)),
                      next, cache, lines, t)
             ELSE IF cached # {}
             THEN RunBatch(Tail(todo),
                      Append(results, BatchSuccess(CacheHit(CHOOSE c \in cached : TRUE))),
                      next, cache, lines \cup LogProceed(cbs, next, d), t)
             ELSE [todo |-> todo, results |-> results, cbs |-> next,
                   cache |-> IF r.method = "GET" THEN getCachedEffect(cache, key, t)
                             ELSE cache,
                   lines |-> lines \cup LogProceed(cbs, next, d)]

\* The handler goes on from `results` with the requests of todo, on the
\* session store `store` and the cache `cache`, until it suspends in the
\* upstream request of one of them or answers with res.json({ results })
BatchLoop(count, todo, results, store, cache, lines) ==
    LET run == RunBatch(todo, results, circuitBreakers, cache, lines, now)
    IN  /\ circuitBreakers' = run.cbs
        /\ memoryCache' = run.cache
        /\ logged' = logged \cup run.lines
        /\ IF run.todo = <<>>
           THEN /\ sessionStore' = store
                /\ batch' = [count |-> count, todo |-> <<>>, results |-> run.results,
                           call |-> Idle]
           ELSE LET r == Head(run.todo)
                    config == websiteConfigs[r.domain]
                    login == NeedsLogin(store, r.domain, config)
                IN  /\ sessionStore' = getCookieJar(store, r.domain, config.baseUrl, now)
                    /\ batch' = [count |-> count,
                                 todo |-> Tail(run.todo),
                                 results |-> run.results,
                                 call |-> [pc |-> IF login THEN "login"
                                                  ELSE IF r.method = "GET" /\ config.useBrowser
                                                  THEN "browser" ELSE "send",
                                           domain |-> r.domain, path |-> r.path,
                                           method |-> r.method,
                                           attempts |-> IF login THEN 0 ELSE 1]]

\* The /batch handler is not suspended in a batch
BatchIdle == batch.call = Idle /\ batch.todo = <<>>

\* app.post('/batch') with an array of at most 10 requests
BatchPost(requests) ==
    /\ Slots # {}
    /\ BatchIdle
    /\ Received < MaxCalls
    /\ BatchLoop(batch.count + 1, requests, <<>>, sessionStore, memoryCache, {})
    /\ UNCHANGED <<now, websiteConfigs, sessionFile, metrics, calls, webhooks, lastResp>>

\* The login POST begun for a request of the batch is answered
BatchLoginDone(a) ==
    LET c == batch.call
        config == websiteConfigs[c.domain]
    IN  /\ c.pc = "login"
        /\ IF c.domain \in DOMAIN sessionStore
           THEN /\ sessionStore' = SetCookies(sessionStore, c.domain, a)
                /\ batch' = [batch EXCEPT
                       !.call.pc = IF c.method = "GET" /\ config.useBrowser
                                   THEN "browser" ELSE "send",
                       !.call.attempts = 1]
                /\ logged' = logged \cup LogLogin(c.domain, a)
                /\ UNCHANGED <<circuitBreakers, memoryCache>>
           ELSE BatchLoop(batch.count, batch.todo,
                          Append(batch.results, BatchFailure(JarTypeError)),
                          sessionStore, memoryCache, LogLogin(c.domain, a))
        /\ UNCHANGED <<now, websiteConfigs, sessionFile, metrics, calls, webhooks,
                       lastResp>>

\* makeAPICall settles for the request of the batch in flight: its outcome
\* is pushed onto results (server.js:637-641) and the loop goes on
BatchSettles(outcome, store, cache) ==
    BatchLoop(batch.count, batch.todo, Append(batch.results, outcome), store, cache, {})

\* The transport attempt of a request of the batch is answered
BatchAnswered(a, scoped) ==
    LET c == batch.call
        config == websiteConfigs[c.domain]
        store == SetCookies(sessionStore, c.domain, a)
        result == Result(c.domain, Url(config, c.path), extractData(a.html, config),
                         now, a.status)
    IN  /\ c.pc = "send"
        /\ IF IsError(a)
           THEN IF ShouldRetry(a, c.method, c.attempts)
                THEN /\ batch' = [batch EXCEPT !.call.attempts = @ + 1]
                     /\ sessionStore' = store
                     /\ UNCHANGED <<circuitBreakers, memoryCache, webhooks, logged>>
                ELSE /\ BatchSettles(BatchFailure(a.code), store, memoryCache)
                     /\ UNCHANGED webhooks
           ELSE IF extractThrows(config)
                THEN /\ BatchSettles(BatchFailure(CssErrorMessage), store, memoryCache)
                     /\ UNCHANGED webhooks
                ELSE IF scoped
                THEN /\ BatchSettles(BatchSuccess(result), store,
                            IF c.method = "GET"
                            THEN setCachedResponse(memoryCache,
                                     getCacheKey(c.domain, c.path, c.method), result,
                                     DEFAULT_TTL, now)
                            ELSE memoryCache)
                     /\ webhooks' = IF config.webhookUrl # {} THEN webhooks + 1
                                    ELSE webhooks
                ELSE /\ BatchSettles(BatchFailure("response is not defined"), store,
                                     memoryCache)
                     /\ UNCHANGED webhooks
        /\ UNCHANGED <<now, websiteConfigs, sessionFile, metrics, calls, lastResp>>

\* The program as written
BatchRespond(a) == BatchAnswered(a, FALSE)

\* getPageWithBrowser ends for a request of the batch
BatchBrowserDone(a) ==
    LET c == batch.call
        store == SetCookies(sessionStore, c.domain, a)
    IN  /\ c.pc = "browser"
        /\ BatchSettles(BatchFailure(IF a.status = 0 THEN a.code
                                     ELSE IF extractThrows(websiteConfigs[c.domain])
                                     THEN CssErrorMessage
                                     ELSE "response is not defined"),
                        store, memoryCache)
        /\ UNCHANGED <<now, websiteConfigs, sessionFile, metrics, calls, webhooks,
                       lastResp>>

----------------------------------------------------------------------------
(* Session administration (server.js:525-541) *)

\* app.delete('/sessions/:domain') for a domain that has a session: the
\* session is removed and the store is saved. (Without a session the
\* handler answers 404 and changes nothing.)
DeleteSession(d) ==
    /\ Slots # {}
    /\ d \in DOMAIN sessionStore
    /\ sessionStore' = [k \in DOMAIN sessionStore \ {d} |-> sessionStore[k]]
    /\ sessionFile' = saveSessions(sessionStore')
    /\ UNCHANGED <<now, websiteConfigs, batch, circuitBreakers, memoryCache, metrics,
                   calls, webhooks, logged, lastResp>>

\* app.delete('/sessions'): the store is replaced by an empty one and saved
ClearSessions ==
    /\ Slots # {}
    /\ sessionStore' = <<>>
    /\ sessionFile' = saveSessions(sessionStore')
    /\ UNCHANGED <<now, websiteConfigs, batch, circuitBreakers, memoryCache, metrics,
                   calls, webhooks, logged, lastResp>>

\* The timer armed by memoryCache.put fires and deletes the entry
CacheTimer(key) ==
    /\ TimerDue(memoryCache, key, now)
    /\ memoryCache' = [k \in DOMAIN memoryCache \ {key} |-> memoryCache[k]]
    /\ UNCHANGED <<now, websiteConfigs, sessionFile, batch, circuitBreakers, sessionStore, metrics,
                   calls, webhooks, logged, lastResp>>

\* The process is down: no request can be handled
Down == Slots = {}

\* SIGINT or SIGTERM (server.js:754-764): the sessions are saved and the
\* process exits; what it held in memory is gone
Shutdown ==
    /\ ~Down
    /\ sessionFile' = saveSessions(sessionStore)
    /\ calls' = <<>>
    /\ circuitBreakers' = <<>> /\ sessionStore' = <<>> /\ memoryCache' = <<>>
    /\ metrics' = [totalRequests |-> 0, totalErrors |-> 0]
    /\ webhooks' = 0 /\ logged' = {} /\ lastResp' = Response("", 0, "", "", {})
    /\ batch' = NoBatch
    /\ UNCHANGED <<now, websiteConfigs>>

\* The module is loaded (server.js:70-195): the sessions of sessions.json
\* are restored and requests are served
Startup ==
    /\ Down
    /\ sessionStore' = Restore(sessionFile, <<>>)
    /\ calls' = [s \in {1} |-> Idle]
    /\ UNCHANGED <<now, websiteConfigs, sessionFile, batch, circuitBreakers, memoryCache,
                   metrics, webhooks, logged, lastResp>>

\* Time passes: the clock is read within MaxSkew ms of 0 or of DEFAULT_TTL
Tick(dt) ==
    /\ now + dt <= DEFAULT_TTL + MaxSkew
    /\ (now + dt) % DEFAULT_TTL <= MaxSkew
    /\ now' = now + dt
    /\ UNCHANGED <<websiteConfigs, sessionFile, batch, circuitBreakers, sessionStore, memoryCache,
                   metrics, calls, webhooks, logged, lastResp>>

\* A millisecond passes
TickMs == Tick(1)

\* A cache lifetime passes
TickTtl == Tick(DEFAULT_TTL)

----------------------------------------------------------------------------
(* Specifications *)

\* The state after the module is loaded with one of the config stores
InitState(slots, configs) ==
    /\ sessionFile = NoFile
    /\ batch = NoBatch
    /\ now = 0
    /\ websiteConfigs \in configs
    /\ circuitBreakers = <<>>
    /\ sessionStore = <<>>
    /\ memoryCache = <<>>
    /\ metrics = [totalRequests |-> 0, totalErrors |-> 0]
    /\ calls = [s \in slots |-> Idle]
    /\ webhooks = 0
    /\ logged = {}
    /\ lastResp = Response("", 0, "", "", {})

InitWith(slots) == InitState(slots, InitialConfigs)

\* No webhook is ever in flight here: line 406 lies behind the throw of line 398
Next ==
    \/ \E d \in Domains, p \in Paths : ApiGet(d, p)
    \/ \E d \in Domains, p \in Paths : ApiPost(d, p)
    \/ \E s \in Slots, a \in Answers : LoginDone(s, a)
    \/ \E s \in Slots, a \in Answers : Respond(s, a)
    \/ \E s \in Slots, a \in Answers : BrowserDone(s, a)
    \/ TickMs

\* One call in flight at a time
Init == InitWith({1})

\* Two calls may be in flight together
InitConcurrent == InitWith({1, 2})

\* The program as written
Spec == InitConcurrent /\ [][Next]_vars

NextScoped ==
    \/ \E d \in Domains, p \in Paths : ApiGet(d, p)
    \/ \E d \in Domains, p \in Paths : ApiPost(d, p)
    \/ \E s \in Slots, a \in Answers : LoginDone(s, a)
    \/ \E s \in Slots, a \in Answers : RespondScoped(s, a)
    \/ \E s \in Slots, a \in Answers : BrowserDone(s, a)
    \/ \E a \in Answers : WebhookDone(a)
    \/ TickMs

\* The pipeline past line 398: `response` declared with function scope
SpecScoped == Init /\ [][NextScoped]_vars

\* The same pipeline over a cache lifetime, for the domain without browser,
\* login and webhook: entries expire and their timers fire
InitCache == Init /\ websiteConfigs = ("a.com" :> ConfigA)

NextCache ==
    \/ \E d \in Domains, p \in Paths : ApiGet(d, p)
    \/ \E d \in Domains, p \in Paths : ApiPost(d, p)
    \/ \E s \in Slots, a \in Answers : RespondScoped(s, a)
    \/ \E key \in DOMAIN memoryCache : CacheTimer(key)
    \/ TickMs
    \/ TickTtl

SpecCache == InitCache /\ [][NextCache]_vars

\* The same pipeline for a domain with a webhook
InitHook == InitState({1}, {"a.com" :> ConfigHook})

NextHook ==
    \/ \E d \in Domains, p \in Paths : ApiGet(d, p)
    \/ \E d \in Domains, p \in Paths : ApiPost(d, p)
    \/ \E s \in Slots, a \in Answers : RespondScoped(s, a)
    \/ \E a \in Answers : WebhookDone(a)
    \/ TickMs

SpecHook == InitHook /\ [][NextHook]_vars

\* The same pipeline for the selector models and documents of extraction
SelectorModels == {[title |-> "h1"], [title |-> "p"], [title |-> "h1["]}

ExtractConfigs == {"a.com" :> [ConfigA EXCEPT !.selectors = m] : m \in SelectorModels}

\* Upstream answers each document with a status of its own
ExtractAnswers ==
    {Answer(200, "", DocHi, {}),
     Answer(201, "", DocTwo, {}),
     Answer(202, "", DocForm, {}),
     Answer(500, "ERR_BAD_RESPONSE", <<>>, {})}

InitExtract == InitState({1}, ExtractConfigs)

\* Selector models with a field named "forms", an array selector and an
\* object selector of another type
ShapeModels ==
    {[title |-> "h1"],
     [forms |-> "h1"],
     [title |-> "h1", items |-> "{array h1}"],
     [title |-> "h1", rows |-> "{list h1}"]}

ShapeConfigs == {"a.com" :> [ConfigA EXCEPT !.selectors = m] : m \in ShapeModels}

InitShapes == InitState({1}, ShapeConfigs)

NextExtract ==
    \/ \E d \in Domains, p \in Paths : ApiGet(d, p)
    \/ \E d \in Domains, p \in Paths : ApiPost(d, p)
    \/ \E s \in Slots, a \in ExtractAnswers : RespondScoped(s, a)
    \/ TickMs

SpecExtract == InitExtract /\ [][NextExtract]_vars

\* The same pipeline over the selector shapes
SpecShapes == InitShapes /\ [][NextExtract]_vars

\* The program as written across shutdowns and restarts. sessions.json starts
\* as one of Snapshots, where an entry may hold a cookie that does not parse.
SerialSid == << <<"sid", "1">>, <<"Path", <<>>>> >>
SerialTok == << <<"tok", "7">> >>
Malformed == <<>>

Entry_(d, cookies) ==
    [domain |-> d, baseUrl |-> "https://" \o d, lastUsed |-> 0, cookies |-> cookies]

Snapshots ==
    {NoFile,
     <<Entry_("a.com", <<SerialSid, SerialTok>>)>>,
     <<Entry_("a.com", <<SerialSid, Malformed, SerialTok>>)>>,
     <<Entry_("b.com", <<Malformed>>), Entry_("a.com", <<SerialSid>>)>>}

\* Upstream sets a cookie for every path, or one for /admin only
SessionAnswers ==
    {Answer(200, "", DocHi, {SidHeader}),
     Answer(200, "", DocHi, {AdminHeader}),
     Answer(500, "ERR_BAD_RESPONSE", <<>>, {})}

InitSessions ==
    /\ sessionFile \in Snapshots
    /\ batch = NoBatch
    /\ now = 0
    /\ websiteConfigs = ("a.com" :> ConfigA)
    /\ circuitBreakers = <<>>
    /\ sessionStore = <<>>
    /\ memoryCache = <<>>
    /\ metrics = [totalRequests |-> 0, totalErrors |-> 0]
    /\ calls = <<>>
    /\ webhooks = 0
    /\ logged = {}
    /\ lastResp = Response("", 0, "", "", {})

NextSessions ==
    \/ Startup
    \/ Shutdown
    \/ \E d \in Domains, p \in Paths : ApiGet(d, p)
    \/ \E d \in Domains, p \in Paths : ApiPost(d, p)
    \/ \E s \in Slots, a \in SessionAnswers : Respond(s, a)
    \/ TickMs

SpecSessions == InitSessions /\ [][NextSessions]_vars

\* What upstream answers here: one of two pages, or nothing before the
\* request is aborted
RaceAnswers ==
    {Answer(200, "", DocHi, {}),
     Answer(200, "", DocForm, {}),
     Answer(0, "ECONNABORTED", <<>>, {})}

InitRace == InitState({1, 2}, {"a.com" :> ConfigA})

NextRace ==
    \/ \E d \in Domains, p \in Paths : ApiGet(d, p)
    \/ \E d \in Domains, p \in Paths : ApiPost(d, p)
    \/ \E s \in Slots, a \in RaceAnswers : RespondScoped(s, a)
    \/ TickMs

\* The pipeline past line 398 with two calls in flight together, for the
\* domain without browser, login and webhook
SpecRace == InitRace /\ [][NextRace]_vars

\* What upstream answers here sets no cookie, so that the jar a call holds
\* after its session was deleted need not be told from the stored one
AdminAnswers ==
    {Answer(200, "", DocHi, {}),
     Answer(500, "ERR_BAD_RESPONSE", <<>>, {}),
     Answer(0, "ECONNABORTED", <<>>, {})}

NextAdmin ==
    \/ \E d \in Domains, p \in Paths : ApiGet(d, p)
    \/ \E d \in Domains, p \in Paths : ApiPost(d, p)
    \/ \E s \in Slots, a \in AdminAnswers : LoginDone(s, a)
    \/ \E s \in Slots, a \in AdminAnswers : Respond(s, a)
    \/ \E s \in Slots, a \in AdminAnswers : BrowserDone(s, a)
    \/ \E d \in Domains : DeleteSession(d)
    \/ ClearSessions
    \/ TickMs

\* The program as written, with the session administration endpoints
SpecAdmin == InitConcurrent /\ [][NextAdmin]_vars

\* The bodies posted to /batch: arrays of at most two requests
BatchRequests == [domain : Domains, path : Paths, method : Methods]
BatchBodies ==
    {<<>>} \cup {<<r>> : r \in BatchRequests}
           \cup {<<r, q>> : r \in BatchRequests, q \in BatchRequests}

\* What upstream answers here: a page, a status error or no response
BatchAnswers ==
    {Answer(200, "", DocHi, {}),
     Answer(500, "ERR_BAD_RESPONSE", <<>>, {}),
     Answer(0, "ETIMEDOUT", <<>>, {})}

NextBatch ==
    \/ \E d \in Domains, p \in Paths : ApiGet(d, p)
    \/ \E d \in Domains, p \in Paths : ApiPost(d, p)
    \/ \E s \in Slots, a \in BatchAnswers : LoginDone(s, a)
    \/ \E s \in Slots, a \in BatchAnswers : Respond(s, a)
    \/ \E s \in Slots, a \in BatchAnswers : BrowserDone(s, a)
    \/ \E requests \in BatchBodies : BatchPost(requests)
    \/ \E a \in BatchAnswers : BatchLoginDone(a)
    \/ \E a \in BatchAnswers : BatchRespond(a)
    \/ \E a \in BatchAnswers : BatchBrowserDone(a)

\* The program as written, with its three entry points, within one reading
\* of the clock
SpecBatch == Init /\ [][NextBatch]_vars

----------------------------------------------------------------------------
(* Vocabulary of the properties *)

FT == CIRCUIT_BREAKER_FAILURE_THRESHOLD
ST == CIRCUIT_BREAKER_SUCCESS_THRESHOLD

\* The breaker of d, as getCircuitBreaker would return it
Breaker(d) == getCircuitBreaker(circuitBreakers, d)[d]

\* The breaker of d after this step
BreakerNext(d) == getCircuitBreaker(circuitBreakers', d)[d]

\* The breaker of d is open and its timeout has not elapsed (now - lastFailure < timeout)
OpenWithin(d) ==
    Breaker(d).state = "open" /\ now - Breaker(d).lastFailure < CIRCUIT_BREAKER_TIMEOUT

\* This step is the entry of an /api handler for domain d
Entry(d) ==
    /\ Handled' = Handled + 1
    /\ \/ calls' = calls /\ lastResp'.domain = d
       \/ \E s \in Slots : calls[s].pc = "idle" /\ calls'[s].pc # "idle"
                              /\ calls'[s].domain = d

\* This step sends the response of a call for d to its caller
Responds(d) == metrics' # metrics /\ lastResp'.domain = d

\* This step reports a failure, or a success, of a call for d to the breaker
FailureReported(d) == Responds(d) /\ lastResp'.code = 500
SuccessReported(d) == Responds(d) /\ lastResp'.code = 200

\* This step puts a request on the wire: a transport attempt, a browser
\* navigation or a login POST
UpstreamContacted ==
    \E s \in Slots :
        /\ calls'[s].pc \in {"send", "browser", "login"}
        /\ calls'[s] # calls[s]

\* The response tells the caller that the circuit is open
IsCircuitOpenError(r) == r.code = 500 /\ r.details = CircuitOpenMessage /\ r.body = {}

----------------------------------------------------------------------------
(* C1 *)

\* C1: from a closed breaker every failed call adds one to failureCount, so
\* that the failureThreshold-th consecutive failure opens the breaker; a call
\* entering while the breaker is open within its timeout is answered with the
\* circuit-open error and no request goes upstream.
C1_OpensAtThreshold ==
    [][\A d \in Domains :
        /\ (FailureReported(d) /\ Breaker(d).state = "closed") =>
               /\ BreakerNext(d).failures = Breaker(d).failures + 1
               /\ Breaker(d).failures + 1 < FT => BreakerNext(d).state = "closed"
               /\ Breaker(d).failures + 1 = FT => BreakerNext(d).state = "open"
        /\ (Entry(d) /\ d \in DOMAIN websiteConfigs /\ OpenWithin(d)) =>
               /\ IsCircuitOpenError(lastResp')
               /\ ~UpstreamContacted
               /\ calls' = calls
    ]_vars

\* A breaker that counted failureThreshold failures in a row is open and has
\* just refused a call
C1_Witness ==
    \E d \in DOMAIN circuitBreakers :
        /\ circuitBreakers[d].state = "open"
        /\ circuitBreakers[d].failures = FT + 1
        /\ IsCircuitOpenError(lastResp)
        /\ lastResp.domain = d

----------------------------------------------------------------------------
(* C2 *)

\* The call entering in this step is let through the breaker of d, which
\* turns half-open with successCount 0, and goes upstream
AdmittedHalfOpen(d) ==
    /\ UpstreamContacted
    /\ BreakerNext(d).state = "half-open"
    /\ BreakerNext(d).successes = 0

\* The call entering in this step is refused and the breaker of d stays open
Refused(d) ==
    /\ IsCircuitOpenError(lastResp')
    /\ ~UpstreamContacted
    /\ BreakerNext(d).state = "open"

\* C2 as stated: an open breaker refuses every call while now - lastFailureAt
\* < timeout, and admits, turning half-open, the call made once
\* now - lastFailureAt >= timeout, equality included.
C2_AsStated ==
    [][\A d \in DOMAIN websiteConfigs :
        (Entry(d) /\ Breaker(d).state = "open") =>
            IF now - Breaker(d).lastFailure < CIRCUIT_BREAKER_TIMEOUT
            THEN Refused(d) ELSE AdmittedHalfOpen(d)
    ]_vars

\* The call entering in this step is let through the breaker of d and is
\* answered from the cache
AdmittedFromCache(d) ==
    /\ SuccessReported(d)
    /\ \E r \in lastResp'.body : r.cached = "true"
    /\ BreakerNext(d) = recordSuccess(canProceedEffect(circuitBreakers, d, now), d)[d]

\* C2 as amended: an open breaker refuses every call while now - lastFailureAt
\* <= timeout, equality included, and the call made once now - lastFailureAt
\* > timeout turns the breaker half-open and is let through: it goes
\* upstream unless it is a GET answered from the cache.
C2_StrictTimeout ==
    [][\A d \in DOMAIN websiteConfigs :
        (Entry(d) /\ Breaker(d).state = "open") =>
            IF now - Breaker(d).lastFailure <= CIRCUIT_BREAKER_TIMEOUT
            THEN Refused(d)
            ELSE AdmittedHalfOpen(d) \/ AdmittedFromCache(d)
    ]_vars

\* A call was admitted by a breaker that had opened: it is in flight while
\* the breaker is half-open and the timeout has elapsed
C2_Witness ==
    \E d \in DOMAIN circuitBreakers, s \in Slots :
        /\ circuitBreakers[d].state = "half-open"
        /\ circuitBreakers[d].failures >= FT
        /\ calls[s].pc # "idle" /\ calls[s].domain = d
        /\ now - circuitBreakers[d].lastFailure > CIRCUIT_BREAKER_TIMEOUT

----------------------------------------------------------------------------
(* C3 *)

\* The breaker of d as the report of this step finds it: a call answered in
\* the step it enters has passed canProceed first
Seen(d) == IF Entry(d) THEN canProceedEffect(circuitBreakers, d, now)[d] ELSE Breaker(d)

\* C3: a success reported while the breaker is half-open adds one to
\* successCount and keeps it half-open below successThreshold; the success
\* that reaches successThreshold closes it with failureCount = 0 and
\* successCount = 0.
C3_ClosesAfterSuccesses ==
    [][\A d \in DOMAIN websiteConfigs :
        (SuccessReported(d) /\ Seen(d).state = "half-open") =>
              IF Seen(d).successes + 1 < ST
              THEN /\ BreakerNext(d).state = "half-open"
                   /\ BreakerNext(d).successes = Seen(d).successes + 1
              ELSE /\ BreakerNext(d).state = "closed"
                   /\ BreakerNext(d).failures = 0
                   /\ BreakerNext(d).successes = 0
    ]_vars

\* The breaker went from half-open to closed on a reported success and
\* both counters are 0
C3_Witness ==
    \E d \in DOMAIN circuitBreakers :
        /\ <<"closed", d>> \in logged
        /\ circuitBreakers[d].state = "closed"
        /\ circuitBreakers[d].failures = 0 /\ circuitBreakers[d].successes = 0
        /\ lastResp.domain = d /\ lastResp.code = 200

----------------------------------------------------------------------------
(* C4 *)

\* The result a fresh GET of path p of domain d is claimed to return for the
\* document html: cached is false
ClaimedResult(d, p, html) ==
    [Result(d, Url(websiteConfigs[d], p), extractData(html, websiteConfigs[d]), now, 200)
        EXCEPT !.cached = "false"]

\* C4 as stated: when upstream answers 2xx to a GET of a configured domain
\* whose breaker is closed, the caller receives 200 with the CallResult
\* (cached = false), a success is reported and the result is stored under the
\* call's key.
C4_AsStated ==
    [][\A s \in Slots, a \in Answers :
        (Respond(s, a) /\ ~IsError(a) /\ calls[s].method = "GET"
            /\ Breaker(calls[s].domain).state = "closed") =>
            LET d == calls[s].domain
                key == getCacheKey(d, calls[s].path, "GET")
            IN  /\ SuccessReported(d)
                /\ lastResp'.body = {ClaimedResult(d, calls[s].path, a.html)}
                /\ key \in DOMAIN memoryCache'
                /\ BreakerNext(d).failures = 0
    ]_vars

----------------------------------------------------------------------------
(* C5 *)

\* The entry stored for a GET of path p of domain d is within its lifetime
Unexpired(d, p) ==
    LET key == getCacheKey(d, p, "GET")
    IN  key \in DOMAIN memoryCache /\ now <= memoryCache[key].expire

\* C5: a GET that passes the breaker and finds an unexpired entry for its
\* (domain, path) is answered with the stored result, equal in domain, url,
\* data, timestamp and status, with cached true; the entry is left as it was.
C5_HitReturnsStored ==
    [][\A d \in DOMAIN websiteConfigs, p \in Paths :
        (ApiGet(d, p) /\ canProceed(circuitBreakers, d, now) /\ Unexpired(d, p)) =>
            LET stored == memoryCache[getCacheKey(d, p, "GET")].value
            IN  /\ lastResp'.code = 200
                /\ lastResp'.body = {[stored EXCEPT !.cached = "true"]}
                /\ stored.cached = "absent"
                /\ memoryCache' = memoryCache
    ]_vars

\* A hit was served later than the entry was written
C5_Witness ==
    \E k \in DOMAIN memoryCache :
        /\ now > memoryCache[k].value.timestamp
        /\ lastResp.code = 200
        /\ lastResp.body = {[memoryCache[k].value EXCEPT !.cached = "true"]}

----------------------------------------------------------------------------
(* C6 *)

GetKeys == {getCacheKey(d, p, "GET") : d \in Domains, p \in Paths}

\* C6: every cache entry is keyed by a GET; a step of a POST call, its entry
\* or its answer, leaves the cache as it is, and a POST that passes the
\* breaker goes upstream although a GET entry for its (domain, path) is cached.
C6_PostBypassesCache ==
    [][/\ DOMAIN memoryCache' \subseteq GetKeys
       /\ \A d \in DOMAIN websiteConfigs, p \in Paths :
             ApiPost(d, p) =>
                /\ memoryCache' = memoryCache
                /\ canProceed(circuitBreakers, d, now) => UpstreamContacted
       /\ \A s \in Slots, a \in Answers :
             (RespondScoped(s, a) /\ calls[s].method = "POST") =>
                memoryCache' = memoryCache
    ]_vars

\* A POST is in flight upstream while the GET entry of its (domain, path) is
\* cached and unexpired
C6_Witness ==
    \E s \in Slots :
        /\ calls[s].pc = "send" /\ calls[s].method = "POST"
        /\ Unexpired(calls[s].domain, calls[s].path)

----------------------------------------------------------------------------
(* C7 *)

\* C7: for a call entering while the breaker of its domain is open and
\* now - lastFailureAt < timeout, canProceed is false and the call is
\* answered with the circuit-open error; no
\* request goes to the transport, the renderer or the login, no webhook is
\* sent, and the cache and the session store are left as they were.
C7_OpenTouchesNothing ==
    [][\A d \in DOMAIN websiteConfigs :
        (Entry(d) /\ OpenWithin(d)) =>
            /\ ~canProceed(circuitBreakers, d, now)
            /\ IsCircuitOpenError(lastResp') /\ lastResp'.domain = d
            /\ ~UpstreamContacted
            /\ UNCHANGED <<calls, memoryCache, sessionStore, webhooks>>
    ]_vars

\* A call was refused by the open breaker while an unexpired entry for a GET
\* of its domain was cached
C7_Witness ==
    \E d \in DOMAIN circuitBreakers, p \in Paths :
        /\ OpenWithin(d)
        /\ Unexpired(d, p)
        /\ IsCircuitOpenError(lastResp) /\ lastResp.domain = d

----------------------------------------------------------------------------
(* C8 *)

\* C8: a GET or POST for a domain without configuration is answered 404; the
\* breakers, the cache, the session store and the calls in flight are left
\* as they were, and the domain gets neither a breaker nor a session.
C8_UnconfiguredTouchesNothing ==
    [][\A d \in Domains \ DOMAIN websiteConfigs, p \in Paths :
        (ApiGet(d, p) \/ ApiPost(d, p)) =>
            /\ lastResp'.code = 404 /\ lastResp'.domain = d
            /\ ~UpstreamContacted
            /\ UNCHANGED <<circuitBreakers, memoryCache, sessionStore, calls, webhooks>>
            /\ d \notin DOMAIN circuitBreakers' /\ d \notin DOMAIN sessionStore'
    ]_vars

\* An unconfigured domain was answered 404 while a breaker and a session of
\* the configured domain exist
C8_Witness ==
    /\ lastResp.code = 404
    /\ lastResp.domain \notin DOMAIN websiteConfigs
    /\ circuitBreakers # <<>> /\ sessionStore # <<>>

----------------------------------------------------------------------------
(* C9, C10 *)

\* The error is of the network class: no response, and a code other than
\* the abort code
NetworkClass(a) == a.status = 0 /\ a.code \notin {"", "ECONNABORTED"}

\* The error is a transport error: the request got no response
TransportError(a) == IsError(a) /\ a.status = 0

ErrorStatus(a) == a.status >= 400 /\ a.status <= 599
Status5xx(a) == a.status >= 500 /\ a.status <= 599

\* This step sends the request of slot s again
Retried(s) ==
    calls'[s].pc = "send" /\ calls'[s].attempts = calls[s].attempts + 1

\* This step surfaces the failure of the call of slot s to its caller
Surfaced(s) ==
    calls'[s].pc = "idle" /\ FailureReported(calls[s].domain)

\* C9 as stated: at most 4 attempts; a retry only after a network-class or
\* connection-reset error; a POST answered 5xx is not retried; a transport
\* error is surfaced only after the retries are exhausted.
C9_AsStated ==
    [][\A s \in Slots, a \in Answers :
        Respond(s, a) =>
            /\ calls[s].attempts <= RETRIES + 1
            /\ Retried(s) => (NetworkClass(a) \/ a.code = "ECONNRESET")
            /\ (calls[s].method = "POST" /\ Status5xx(a)) => Surfaced(s)
            /\ (TransportError(a) /\ Surfaced(s)) =>
                   calls[s].attempts = RETRIES + 1
    ]_vars

\* C9 as amended: at most 4 attempts; a retry only after a network-class or
\* connection-reset error or, for a GET, a 5xx response; a POST answered 5xx
\* is not retried; a network-class error is surfaced only after the retries
\* are exhausted, and an aborted request (ECONNABORTED) is surfaced at once.
C9_RetryBudget ==
    [][\A s \in Slots, a \in Answers :
        Respond(s, a) =>
            /\ calls[s].attempts <= RETRIES + 1
            /\ Retried(s) => \/ NetworkClass(a) \/ a.code = "ECONNRESET"
                              \/ (calls[s].method = "GET" /\ Status5xx(a))
            /\ (calls[s].method = "POST" /\ Status5xx(a)) => Surfaced(s)
            /\ ((NetworkClass(a) \/ a.code = "ECONNRESET") /\ Surfaced(s)) =>
                   calls[s].attempts = RETRIES + 1
            /\ a.code = "ECONNABORTED" => Surfaced(s)
    ]_vars

\* A call is on its fourth attempt
C9_Witness == \E s \in Slots : calls[s].pc = "send" /\ calls[s].attempts = RETRIES + 1

\* C10 as stated: whatever the method, an answer with an error status is
\* surfaced at once and the request is not sent again.
C10_AsStated ==
    [][\A s \in Slots, a \in Answers :
        (Respond(s, a) /\ ErrorStatus(a)) => (Surfaced(s) /\ ~Retried(s))
    ]_vars

\* C10 as amended: an answer with a 4xx status, or with a 5xx status to a
\* POST, is surfaced at once without retry; a 5xx answer to a GET is retried
\* while retries remain and surfaced after the fourth attempt.
C10_StatusErrorRetry ==
    [][\A s \in Slots, a \in Answers :
        (Respond(s, a) /\ ErrorStatus(a)) =>
            IF Status5xx(a) /\ calls[s].method = "GET" /\ calls[s].attempts <= RETRIES
            THEN Retried(s) /\ ~Surfaced(s)
            ELSE Surfaced(s) /\ ~Retried(s)
    ]_vars

\* A GET was answered 5xx on each of its attempts and the error reached the
\* caller
C10_Witness ==
    /\ lastResp.code = 500
    /\ lastResp.error = ErrorText("GET")
    /\ lastResp.details = "ERR_BAD_RESPONSE"

----------------------------------------------------------------------------
(* C11 *)

\* The response r is a result served from the cache
IsHit(r) == r.code = 200 /\ \E b \in r.body : b.cached = "true"

\* C11: every cache entry expires ttl after the time it was written; a GET is
\* answered from the cache only within ttl of that time and the hit leaves
\* the expiry as it was; a GET that passes the breaker later than ttl after
\* the write is a miss and goes upstream.
C11_TtlFromWrite ==
    [][/\ \A k \in DOMAIN memoryCache' :
             memoryCache'[k].expire = memoryCache'[k].value.timestamp + DEFAULT_TTL
       /\ \A d \in DOMAIN websiteConfigs, p \in Paths :
             LET key == getCacheKey(d, p, "GET")
             IN  (ApiGet(d, p) /\ canProceed(circuitBreakers, d, now)) =>
                    /\ (IsHit(lastResp') /\ Responds(d)) =>
                          /\ key \in DOMAIN memoryCache
                          /\ now - memoryCache[key].value.timestamp <= DEFAULT_TTL
                          /\ memoryCache' = memoryCache
                    /\ (key \in DOMAIN memoryCache
                          /\ now - memoryCache[key].value.timestamp > DEFAULT_TTL) =>
                          /\ UpstreamContacted
                          /\ ~Responds(d)
    ]_vars

\* A result was served from the cache, and later than ttl after it was
\* written a GET for the same domain and path is on its way upstream
C11_Witness ==
    \E s \in Slots, b \in lastResp.body :
        /\ b.cached = "true"
        /\ now > b.timestamp + DEFAULT_TTL
        /\ calls[s].pc = "send" /\ calls[s].method = "GET"
        /\ b.url = Url(websiteConfigs[calls[s].domain], calls[s].path)

----------------------------------------------------------------------------
(* C12 *)

\* C12: when the login POST of a session being created is answered, whether
\* it failed or not, the call that triggered it goes on to its own upstream
\* request (its first attempt, or the browser navigation); nothing is
\* reported to the breaker, counted or answered to the caller by the login.
C12_LoginFailureSwallowed ==
    [][\A s \in Slots, a \in Answers :
        LoginDone(s, a) =>
            LET c == calls[s]
            IN  /\ calls'[s] = [c EXCEPT
                        !.pc = IF c.method = "GET" /\ websiteConfigs[c.domain].useBrowser
                               THEN "browser" ELSE "send",
                        !.attempts = 1]
                /\ UpstreamContacted
                /\ UNCHANGED <<circuitBreakers, metrics, lastResp, memoryCache, webhooks>>
    ]_vars

\* The login of a session failed, and the request of the call that created
\* the session is on the wire
C12_Witness ==
    \E s \in Slots :
        /\ calls[s].pc \in {"send", "browser"}
        /\ <<"login failed", calls[s].domain>> \in logged
        /\ <<"login successful", calls[s].domain>> \notin logged
        /\ Handled = 1

----------------------------------------------------------------------------
(* C13 *)

\* This step produces a fresh result for the call of slot s
FreshResult(s) ==
    /\ calls[s].pc = "send" /\ calls'[s].pc = "idle"
    /\ SuccessReported(calls[s].domain)

\* C13: a webhook POST is dispatched only by a step that produces a fresh
\* result for a domain with a webhookUrl, and one POST by such a step; the
\* answer to a webhook POST, failure included, ends that POST without another
\* being sent and leaves the answer to the caller, the cache, the breakers
\* and the counters as they were.
C13_WebhookOnceAndSwallowed ==
    [][/\ webhooks' > webhooks =>
            /\ webhooks' = webhooks + 1
            /\ \E s \in Slots : /\ FreshResult(s)
                                 /\ websiteConfigs[calls[s].domain].webhookUrl # {}
       /\ \A s \in Slots :
            (FreshResult(s) /\ websiteConfigs[calls[s].domain].webhookUrl # {}) =>
                webhooks' = webhooks + 1
       /\ \A a \in Answers :
            WebhookDone(a) =>
                /\ webhooks' = webhooks - 1
                /\ UNCHANGED <<lastResp, memoryCache, circuitBreakers, metrics, calls>>
    ]_vars

\* The webhook POST of a fresh GET result failed; the result answered to the
\* caller is the one cached, the breaker has no failure and no POST is left
C13_Witness ==
    /\ <<"webhook failed", "">> \in logged
    /\ webhooks = 0
    /\ lastResp.code = 200
    /\ \E k \in DOMAIN memoryCache : lastResp.body = {memoryCache[k].value}
    /\ Breaker(lastResp.domain).failures = 0

----------------------------------------------------------------------------
(* C14 *)

\* This step runs the extraction for the call of slot s on the document of
\* the answer a
Extracts(s, a) == RespondScoped(s, a) /\ ~IsError(a)

\* C14 as stated: extraction never raises; for a selector model with a
\* malformed CSS expression the call that ran it is answered 200 with the
\* empty string for that field.
C14_AsStated ==
    [][\A s \in Slots, a \in ExtractAnswers :
        Extracts(s, a) =>
            LET config == websiteConfigs[calls[s].domain]
            IN  /\ ~extractThrows(config)
                /\ lastResp'.code = 200
                /\ \A b \in lastResp'.body, k \in DOMAIN config.selectors :
                      CssThrows(config.selectors[k]) => SameValue(b.data[k], StringValue(<<>>))
    ]_vars

----------------------------------------------------------------------------
(* C15 *)

\* The text of the first element of els, or the empty text
FirstText(els) == IF els = <<>> THEN <<>> ELSE Head(els).text

\* C15 as stated: the value of a text field is the trimmed text of the first
\* element matching its CSS expression, the empty string when none matches.
C15_AsStated ==
    [][\A s \in Slots, a \in ExtractAnswers :
        (Extracts(s, a) /\ ~extractThrows(websiteConfigs[calls[s].domain])) =>
            LET config == websiteConfigs[calls[s].domain]
            IN  \A b \in lastResp'.body, k \in DOMAIN config.selectors :
                    SameValue(b.data[k],
                              StringValue(Trim(FirstText(Select(a.html, config.selectors[k])))))
    ]_vars

----------------------------------------------------------------------------
(* C16 *)

\* The results r and q come from the same document and selector model: the
\* model is fixed within a run and the answers of SpecExtract give each
\* document a status of its own
SameInputs(r, q) == r.domain = q.domain /\ r.status = q.status

----------------------------------------------------------------------------
(* C17 *)

\* The cookies of a jar by name, value, domain and path
CookieSet(jar) ==
    {[key |-> c.key, value |-> c.value, domain |-> c.domain, path |-> c.path] : c \in jar}

\* C17 as stated: what is persisted at shutdown restores, for every domain of
\* the session store, to a cookie set equal in names, values, domains and
\* paths to the one the store held.
C17_AsStated ==
    [][Shutdown =>
        LET restored == Restore(sessionFile', <<>>)
        IN  \A d \in DOMAIN sessionStore :
                /\ d \in DOMAIN restored
                /\ CookieSet(restored[d].jar) = CookieSet(sessionStore[d].jar)
    ]_vars

----------------------------------------------------------------------------
(* C18 *)

\* C18 as stated: a restoration stores a session for every domain of the
\* snapshot, with every cookie of the domain that parses.
C18_AsStated ==
    [][Startup =>
        \A i \in DOMAIN sessionFile :
            LET e == sessionFile[i]
            IN  /\ e.domain \in DOMAIN sessionStore'
                /\ \A j \in DOMAIN e.cookies :
                      CookieParse(e.cookies[j], e.baseUrl) \subseteq sessionStore'[e.domain].jar
    ]_vars

----------------------------------------------------------------------------
(* C19 *)

\* C19: a failure reported while the breaker is half-open opens it; a breaker
\* that is open or half-open has failureCount >= failureThreshold, the
\* transitions to open and to half-open leaving the count as it was or
\* higher; failureCount goes back to 0 only by a success reported while
\* closed or by the success that closes a half-open breaker.
C19_HalfOpenFailureReopens ==
    [][\A d \in DOMAIN websiteConfigs :
        /\ (FailureReported(d) /\ Seen(d).state = "half-open") =>
                /\ BreakerNext(d).state = "open"
                /\ BreakerNext(d).failures = Seen(d).failures + 1
        /\ BreakerNext(d).state \in {"open", "half-open"} =>
                /\ BreakerNext(d).failures >= FT
                /\ BreakerNext(d).failures >= Breaker(d).failures
        /\ BreakerNext(d).failures < Breaker(d).failures =>
                /\ BreakerNext(d).failures = 0
                /\ SuccessReported(d)
                /\ \/ Seen(d).state = "closed"
                   \/ Seen(d).state = "half-open" /\ BreakerNext(d).state = "closed"
    ]_vars

\* A breaker that turned half-open and never closed is open again, and the
\* last answer is the failure of the call it had let through
C19_Witness ==
    \E d \in DOMAIN circuitBreakers :
        /\ circuitBreakers[d].state = "open"
        /\ <<"half-open", d>> \in logged
        /\ <<"closed", d>> \notin logged
        /\ lastResp.domain = d /\ lastResp.code = 500
        /\ ~IsCircuitOpenError(lastResp)
        /\ circuitBreakers[d].lastFailure = now

----------------------------------------------------------------------------
(* C20 *)

\* C20: while the breaker is closed, a reported success sets failureCount to
\* 0 and leaves it closed; a reported failure adds exactly 1 to failureCount
\* and opens the breaker, with lastFailureAt the time of the failure, if and
\* only if the new failureCount >= failureThreshold.
C20_ClosedTransitions ==
    [][\A d \in DOMAIN websiteConfigs :
        /\ (SuccessReported(d) /\ Seen(d).state = "closed") =>
                /\ BreakerNext(d).failures = 0
                /\ BreakerNext(d).state = "closed"
        /\ (FailureReported(d) /\ Seen(d).state = "closed") =>
                /\ BreakerNext(d).failures = Seen(d).failures + 1
                /\ BreakerNext(d).state = "open" <=> Seen(d).failures + 1 >= FT
                /\ BreakerNext(d).state \in {"open", "closed"}
                /\ BreakerNext(d).state = "open" => BreakerNext(d).lastFailure = now
    ]_vars

\* A closed breaker that had counted a failure is back at failureCount 0
\* after a success, without ever having opened
C20_Witness ==
    \E d \in DOMAIN circuitBreakers :
        /\ circuitBreakers[d].state = "closed"
        /\ circuitBreakers[d].failures = 0
        /\ circuitBreakers[d].lastFailure # NULL
        /\ <<"opened", d>> \notin logged
        /\ lastResp.domain = d /\ lastResp.code = 200

----------------------------------------------------------------------------
(* C21 *)

\* A call for d is in flight
Pending(d) == \E s \in Slots : calls[s].pc # "idle" /\ calls[s].domain = d

\* C21 as stated: the call whose canProceed turns an open breaker half-open
\* is admitted with successCount 0, and a call entering while the breaker is
\* half-open and the trial call is still in flight is not admitted.
C21_AsStated ==
    [][\A d \in DOMAIN websiteConfigs :
        /\ (Entry(d) /\ Breaker(d).state = "open" /\ TimedOut(Breaker(d), now)) =>
               AdmittedHalfOpen(d) \/ AdmittedFromCache(d)
        /\ (Entry(d) /\ Breaker(d).state = "half-open" /\ Breaker(d).successes = 0
                      /\ Pending(d)) =>
               /\ IsCircuitOpenError(lastResp')
               /\ ~UpstreamContacted
    ]_vars

\* C21 as amended: the call whose canProceed turns an open breaker half-open
\* is admitted with successCount 0, and every call entering while the breaker
\* is half-open is admitted too, whether or not an earlier trial call is
\* still in flight; its admission leaves the breaker as it was.
C21_HalfOpenAdmitsAll ==
    [][\A d \in DOMAIN websiteConfigs :
        /\ (Entry(d) /\ Breaker(d).state = "open" /\ TimedOut(Breaker(d), now)) =>
               AdmittedHalfOpen(d) \/ AdmittedFromCache(d)
        /\ (Entry(d) /\ Breaker(d).state = "half-open") =>
               /\ UpstreamContacted \/ AdmittedFromCache(d)
               /\ UpstreamContacted => BreakerNext(d) = Breaker(d)
    ]_vars

\* Two calls for one domain are in flight behind a half-open breaker that
\* has counted no success: the second was admitted before the first reported
C21_Witness ==
    \E d \in DOMAIN circuitBreakers :
        /\ circuitBreakers[d].state = "half-open"
        /\ circuitBreakers[d].successes = 0
        /\ \A s \in Slots : calls[s].pc # "idle" /\ calls[s].domain = d
        /\ Cardinality(Slots) = 2

----------------------------------------------------------------------------
(* C22 *)

\* The call in slot s begins, in this step, a request of its own through the
\* retrying transport, or through the browser
BeginsSend(s) == calls'[s].pc = "send" /\ calls[s].pc # "send"
BeginsBrowser(s) == calls'[s].pc = "browser" /\ calls[s].pc # "browser"

\* The domain of the call that slot s holds after this step uses the browser
UsesBrowser(s) == websiteConfigs[calls'[s].domain].useBrowser

\* C22 as stated: for a domain configured with useBrowser no call, whatever
\* its method, sends its request through the retrying transport, and a
\* browser fetch ends the call without being repeated.
C22_AsStated ==
    [][\A s \in Slots :
        /\ BeginsSend(s) => ~UsesBrowser(s)
        /\ (calls[s].pc = "browser" /\ calls'[s] # calls[s]) => calls'[s] = Idle
    ]_vars

\* C22 as amended: for a domain configured with useBrowser every GET is
\* fetched through the browser and never through the retrying transport, and
\* a browser fetch ends the call without being repeated; every other call,
\* a POST to a useBrowser domain included, goes through the retrying
\* transport.
C22_BrowserForGetOnly ==
    [][\A s \in Slots :
        /\ BeginsBrowser(s) => (UsesBrowser(s) /\ calls'[s].method = "GET")
        /\ BeginsSend(s) => ~(UsesBrowser(s) /\ calls'[s].method = "GET")
        /\ (calls[s].pc = "browser" /\ calls'[s] # calls[s]) => calls'[s] = Idle
    ]_vars

\* A GET to the useBrowser domain failed after its browser navigation got no
\* response, and a POST to the same domain is at its second attempt in the
\* retrying transport
C22_Witness ==
    \E s \in Slots :
        /\ calls[s].pc = "send" /\ calls[s].method = "POST"
        /\ websiteConfigs[calls[s].domain].useBrowser
        /\ calls[s].attempts = 2
        /\ lastResp.domain = calls[s].domain
        /\ lastResp.error = ErrorText("GET")
        /\ lastResp.details = "ETIMEDOUT"
        /\ Handled = 2

----------------------------------------------------------------------------
(* C23 *)

\* This step answers a call for d from the cache
HitStep(d) == Entry(d) /\ SuccessReported(d) /\ IsHit(lastResp')

----------------------------------------------------------------------------
(* C24 *)

\* makeAPICall settles in this step for the dispatched call of slot s, or
\* for the dispatched request of the batch
CallEnds(s) == calls[s].pc \in {"send", "browser"} /\ calls'[s].pc = "idle"
BatchCallEnds ==
    /\ batch.call.pc \in {"send", "browser"}
    /\ Len(batch'.results) > Len(batch.results)

\* The breaker of d is after this step as one report of a success, or of a
\* failure, leaves it
ReportedOnce(d, success) ==
    IF success
    THEN BreakerNext(d) = recordSuccess(circuitBreakers, d)[d]
    ELSE /\ BreakerNext(d).failures = Breaker(d).failures + 1
         /\ BreakerNext(d).lastFailure = now

\* C24 as stated: every dispatched call reports its outcome to the breaker
\* of its domain exactly once when it settles, a success if it returned a
\* result and a failure otherwise, whether the GET handler, the POST handler
\* or the batch handler issued it.
C24_AsStated ==
    [][/\ \A s \in Slots :
             CallEnds(s) => ReportedOnce(calls[s].domain, lastResp'.code = 200)
       /\ BatchCallEnds =>
             ReportedOnce(batch.call.domain,
                          batch'.results[Len(batch.results) + 1].success)
    ]_vars

----------------------------------------------------------------------------
(* C25 *)

\* C25: whichever way failing calls for one domain interleave, each
\* reported failure adds exactly one to failureCount, the breaker is open
\* whenever the count it leaves is at least failureThreshold, and a failure
\* reported while the breaker is open leaves it open.
C25_ConcurrentFailuresCounted ==
    [][\A d \in DOMAIN websiteConfigs :
        FailureReported(d) =>
            /\ BreakerNext(d).failures = Seen(d).failures + 1
            /\ BreakerNext(d).failures >= FT => BreakerNext(d).state = "open"
            /\ Seen(d).state = "open" => BreakerNext(d).state = "open"
    ]_vars

\* Three calls for one domain failed upstream and the breaker, which never
\* turned half-open, is open with all three counted: the third was in flight
\* when the second opened the breaker
C25_Witness ==
    \E d \in DOMAIN circuitBreakers :
        /\ circuitBreakers[d].state = "open"
        /\ circuitBreakers[d].failures = FT + 1
        /\ <<"half-open", d>> \notin logged
        /\ metrics.totalErrors = FT + 1
        /\ lastResp.domain = d
        /\ lastResp.code = 500 /\ ~IsCircuitOpenError(lastResp)

----------------------------------------------------------------------------
(* C26 *)

----------------------------------------------------------------------------
(* C27 *)

\* The call that enters slot s in this step creates the session of its
\* domain, which is configured with a login
TriggersLogin(s) ==
    /\ calls[s].pc = "idle" /\ calls'[s].pc # "idle"
    /\ NeedsLogin(sessionStore, calls'[s].domain, websiteConfigs[calls'[s].domain])

\* C27 as stated: the call that triggers the login sends its own upstream
\* request without waiting for the login POST.
C27_AsStated ==
    [][\A s \in Slots : TriggersLogin(s) => calls'[s].pc \in {"send", "browser"}]_vars

\* C27 as amended: the call that triggers the login waits for the login
\* POST: it has sent no request of its own while the login is pending, it
\* moves on only in the step in which the login POST is answered, with
\* success or with an error, and that step begins its own first request.
C27_LoginAwaited ==
    [][\A s \in Slots :
        /\ TriggersLogin(s) => (calls'[s].pc = "login" /\ calls'[s].attempts = 0)
        /\ (calls[s].pc = "login" /\ calls'[s] # calls[s]) =>
               /\ calls'[s].pc \in {"send", "browser"}
               /\ calls'[s].attempts = 1
               /\ \E a \in Answers :
                      sessionStore' = SetCookies(sessionStore, calls[s].domain, a)
               /\ metrics' = metrics
    ]_vars

\* The only call received so far has been waiting for its login POST since
\* time 0 and has sent no request of its own
C27_Witness ==
    \E s \in Slots :
        /\ calls[s].pc = "login" /\ calls[s].attempts = 0
        /\ sessionStore[calls[s].domain].lastUsed = 0
        /\ now = MaxSkew
        /\ Received = 1

----------------------------------------------------------------------------
(* C28 *)

\* This step refuses a call for d at the breaker
RefusedStep(d) == Entry(d) /\ Responds(d) /\ IsCircuitOpenError(lastResp')

\* C28 as stated: a call refused because the breaker is open leaves the
\* breaker's state, failureCount, successCount and lastFailureAt as they
\* were, so that the refusal does not extend the open window.
C28_AsStated ==
    [][\A d \in DOMAIN websiteConfigs :
        RefusedStep(d) =>
            /\ BreakerNext(d).state = Breaker(d).state
            /\ BreakerNext(d).failures = Breaker(d).failures
            /\ BreakerNext(d).successes = Breaker(d).successes
            /\ BreakerNext(d).lastFailure = Breaker(d).lastFailure
    ]_vars

----------------------------------------------------------------------------
(* C29 *)

\* The times at which the breaker of d was logged as opened
OpenedTimes(d) ==
    {l[3] : l \in {x \in logged : Len(x) = 3 /\ x[1] = "opened" /\ x[2] = d}}

\* The breaker of d has been open ever since the first failure that opened it
OpenSinceFirst(d) ==
    /\ Breaker(d).state = "open"
    /\ OpenedTimes(d) # {}
    /\ <<"half-open", d>> \notin logged

\* The time of the failure that opened the breaker of d, under OpenSinceFirst
OpenedAt(d) == CHOOSE t \in OpenedTimes(d) : \A u \in OpenedTimes(d) : t <= u

\* C29 as stated, in its bound: however often calls arrived in between, a
\* call arriving more than timeout after the failure that opened the
\* breaker is admitted and the breaker leaves open.
C29_AsStated ==
    [][\A d \in DOMAIN websiteConfigs :
        (Entry(d) /\ OpenSinceFirst(d)
                  /\ now - OpenedAt(d) > CIRCUIT_BREAKER_TIMEOUT) =>
            AdmittedHalfOpen(d) \/ AdmittedFromCache(d)
    ]_vars

----------------------------------------------------------------------------
(* C30 *)

----------------------------------------------------------------------------
(* C31 *)

\* C31 as stated: whatever the session administration did while a call was
\* suspended on its login POST, the call obtains a jar when the login is
\* answered and goes on to its own request; no failure is reported for it.
C31_AsStated ==
    [][\A s \in Slots :
        (calls[s].pc = "login" /\ calls'[s] # calls[s]) =>
            /\ calls'[s].pc \in {"send", "browser"}
            /\ metrics' = metrics
            /\ circuitBreakers' = circuitBreakers
    ]_vars

----------------------------------------------------------------------------
(* C32 *)

\* C32: in every reachable state every breaker has failureCount >= 0 and
\* 0 <= successCount < successThreshold; a closed breaker has failureCount <
\* failureThreshold and successCount = 0; an open or half-open breaker has
\* failureCount >= failureThreshold and lastFailureAt set.
C32_BreakerInvariant ==
    \A d \in DOMAIN circuitBreakers :
        LET cb == circuitBreakers[d]
        IN  /\ cb.state \in {"closed", "open", "half-open"}
            /\ cb.failures >= 0
            /\ cb.successes >= 0 /\ cb.successes < ST
            /\ cb.state = "closed" => (cb.failures < FT /\ cb.successes = 0)
            /\ cb.state # "closed" => (cb.failures >= FT /\ cb.lastFailure # NULL)

\* A breaker that counted a success while half-open and then a failure is
\* open again with that success still counted
C32_Witness ==
    \E d \in DOMAIN circuitBreakers :
        /\ circuitBreakers[d].state = "open"
        /\ circuitBreakers[d].successes = ST - 1
        /\ circuitBreakers[d].failures > FT
        /\ <<"half-open", d>> \in logged

----------------------------------------------------------------------------
(* C33 *)

\* C33 as stated: the output of an extraction has exactly one key per
\* configured field, holding the value extracted for that field, and the
\* forms key; this for a field named "forms" and for an object selector
\* whose type is not "array" as for any other.
C33_AsStated ==
    [][\A s \in Slots, a \in ExtractAnswers :
        (Extracts(s, a) /\ ~extractThrows(websiteConfigs[calls[s].domain])) =>
            LET config == websiteConfigs[calls[s].domain]
            IN  \A b \in lastResp'.body :
                    /\ DOMAIN b.data = DOMAIN config.selectors \cup {"forms"}
                    /\ \A k \in Assigned(config) :
                           SameValue(b.data[k], FieldValue(a.html, config.selectors[k]))
                    /\ "forms" \notin DOMAIN config.selectors =>
                           SameValue(b.data.forms, ArrayValue(Forms(a.html)))
    ]_vars

====
